---- MODULE Spec2Model ----
(***************************************************************************)
(* Model of autoconfig.py: ClientConfig resolves a domain to the mail      *)
(* server settings published in the Thunderbird autoconfig database.       *)
(*                                                                         *)
(* A Python str is a sequence of pieces.  A str the code inspects (the     *)
(* domain handed to fix_url, the protocol handed to _get_config, a type    *)
(* attribute, the text of a <port> element) has one piece per character;   *)
(* a str the code only copies (hostname, socketType, ...) is one piece.    *)
(***************************************************************************)
EXTENDS Integers, Sequences, FiniteSets, TLC

VARIABLES
    obj,        \* the ClientConfig most recently constructed, or NoObject
    op,         \* name of the last operation that ran
    arg,        \* arguments of the last operation
    response,   \* what the endpoint answers to a GET for the domain
    sent,       \* URLs requested (requests.get) by the last operation
    parsed,     \* TRUE iff the last operation entered parse_config
    raised,     \* exception that left the last operation, or "none"
    result,     \* value returned by the last operation
    norm        \* fix_url applied on its own: input, fix_url(x), fix_url(fix_url(x))

vars == <<obj, op, arg, response, sent, parsed, raised, result, norm>>

---------------------------------------------------------------------------
(* Bounds                                                                  *)

\* longest string appended to a scheme prefix to form an input of fix_url
MaxLen == 3
\* most server elements (incoming plus outgoing) in one document
MaxServers == 3

---------------------------------------------------------------------------
(* Python str operations                                                   *)

\* str.startswith(prefix)
startswith(s, prefix) ==
    /\ Len(s) >= Len(prefix)
    /\ SubSeq(s, 1, Len(prefix)) = prefix

UpperCase == <<"A", "B", "C", "D", "E", "F", "G", "H", "I", "J", "K", "L", "M",
               "N", "O", "P", "Q", "R", "S", "T", "U", "V", "W", "X", "Y", "Z">>
LowerCase == <<"a", "b", "c", "d", "e", "f", "g", "h", "i", "j", "k", "l", "m",
               "n", "o", "p", "q", "r", "s", "t", "u", "v", "w", "x", "y", "z">>

\* str.lower() on one character
lowerChar(c) ==
    IF \E i \in DOMAIN UpperCase : UpperCase[i] = c
    THEN LowerCase[CHOOSE i \in DOMAIN UpperCase : UpperCase[i] = c]
    ELSE c

\* str.lower()
lower(s) == [i \in DOMAIN s |-> lowerChar(s[i])]

\* str.find(c, start): 0-based index of the first c at or after start, or -1
find(s, c, start) ==
    LET hits == {i \in start .. (Len(s) - 1) : s[i + 1] = c}
    IN  IF hits = {} THEN -1 ELSE CHOOSE i \in hits : \A j \in hits : i <= j

\* c in s
contains(s, c) == \E i \in DOMAIN s : s[i] = c

\* s[a:b] with 0 <= a
slice(s, a, b) == SubSeq(s, a + 1, IF b > Len(s) THEN Len(s) ELSE b)

Digits == <<"0", "1", "2", "3", "4", "5", "6", "7", "8", "9">>
isdigit(c) == \E i \in DOMAIN Digits : Digits[i] = c
digitValue(c) == (CHOOSE i \in DOMAIN Digits : Digits[i] = c) - 1
isalpha(c) == \E i \in DOMAIN UpperCase : c = UpperCase[i] \/ c = LowerCase[i]

\* characters urlsplit strips from the left of the url (C0 controls and space)
WHATWG_C0_CONTROL_OR_SPACE == {"\t", "\n", "\r", " "}
\* characters urlsplit removes wherever they stand
UNSAFE_URL_BYTES_TO_REMOVE == {"\t", "\r", "\n"}

RECURSIVE lstrip(_, _)
lstrip(s, chars) ==
    IF s # <<>> /\ Head(s) \in chars THEN lstrip(Tail(s), chars) ELSE s

\* url.replace(b, "") for every b in chars
removeAll(s, chars) == SelectSeq(s, LAMBDA c : c \notin chars)

---------------------------------------------------------------------------
(* urllib.parse.urlsplit, as far as fix_url uses it: scheme and netloc     *)

scheme_chars(c) == isalpha(c) \/ isdigit(c) \/ c \in {"+", "-", "."}

\* _splitnetloc(url, 2): the text from index 2 up to the first of / ? #
splitnetloc(url, start) ==
    LET ends == {find(url, c, start) : c \in {"/", "?", "#"}} \ {-1}
        delim == IF ends = {} THEN Len(url)
                 ELSE CHOOSE i \in ends : \A j \in ends : i <= j
    IN  slice(url, start, delim)

\* urlsplit(url): [raised, scheme, netloc].  A netloc holding one bracket
\* without the other raises ValueError("Invalid IPv6 URL").
urlsplit(url0) ==
    LET \* scheme, url = url[:i].lower(), url[i+1:] when url[:i] is a scheme
        splitScheme(url, i) ==
            IF /\ i > 0
               /\ isalpha(url[1])
               /\ \A k \in 1 .. i : scheme_chars(url[k])
            THEN [scheme |-> lower(slice(url, 0, i)),
                  url |-> slice(url, i + 1, Len(url))]
            ELSE [scheme |-> <<>>, url |-> url]
        checked(scheme, netloc) ==
            IF \/ contains(netloc, "[") /\ ~contains(netloc, "]")
               \/ contains(netloc, "]") /\ ~contains(netloc, "[")
            THEN [raised |-> "ValueError", scheme |-> scheme, netloc |-> <<>>]
            ELSE [raised |-> "none", scheme |-> scheme, netloc |-> netloc]
        splitNetloc(parts) ==
            IF slice(parts.url, 0, 2) = <<"/", "/">>
            THEN checked(parts.scheme, splitnetloc(parts.url, 2))
            ELSE [raised |-> "none", scheme |-> parts.scheme, netloc |-> <<>>]
        split(url) == splitNetloc(splitScheme(url, find(url, ":", 0)))
    IN  split(removeAll(lstrip(url0, WHATWG_C0_CONTROL_OR_SPACE),
                        UNSAFE_URL_BYTES_TO_REMOVE))

---------------------------------------------------------------------------
(* ClientConfig.fix_url                                                    *)

HTTP == <<"h", "t", "t", "p", ":", "/", "/">>
HTTPS == <<"h", "t", "t", "p", "s", ":", "/", "/">>

\* what fix_url returns or raises, given what urlsplit did
netlocOf(parts) == [raised |-> parts.raised, value |-> parts.netloc]

\* fault: the scheme is never prepended
fix_url_no_prepend(domain) == netlocOf(urlsplit(domain))

\* fault: only "http://" counts as a scheme already present
fix_url_http_only(domain) ==
    netlocOf(urlsplit(IF ~startswith(domain, HTTP) THEN HTTP \o domain ELSE domain))

\* fix_url(domain): [raised, value]
fix_url(domain) ==
    netlocOf(urlsplit(IF ~(startswith(domain, HTTP) \/ startswith(domain, HTTPS))
                      THEN HTTP \o domain
                      ELSE domain))

---------------------------------------------------------------------------
(* Values                                                                  *)

\* Python None, and a str that is not None
None == [isNone |-> TRUE]
Str(s) == [isNone |-> FALSE, s |-> s]

\* no ClientConfig exists (none constructed yet, or construction raised)
NoObject == [constructed |-> FALSE]

\* returned values, by kind
Nothing == [kind |-> "nothing"]
ReturnNone == [kind |-> "None"]
ReturnConfig(c) == [kind |-> "ServerConfig", config |-> c]
ReturnList(cs) == [kind |-> "list", configs |-> cs]
ReturnObject == [kind |-> "ClientConfig"]

---------------------------------------------------------------------------
(* ServerConfig                                                            *)

\* ServerConfig.__init__
ServerConfig(protocol, hostname, port, socket_type, authentication, username) ==
    [protocol |-> protocol, hostname |-> hostname, port |-> port,
     socket_type |-> socket_type, authentication |-> authentication,
     username |-> username]

---------------------------------------------------------------------------
(* untangle: the element tree of a parsed document                         *)

\* untangle.Element: name, attributes (key, value pairs), children, cdata
Element(name, attributes, children, cdata) ==
    [name |-> name, attributes |-> attributes, children |-> children,
     cdata |-> cdata]

Attr(key, value) == [key |-> key, value |-> value]

\* Element.__getitem__(key): the attribute's value, None when it is absent
get_attribute(e, key) ==
    LET value(m) == IF Len(m) = 0 THEN None ELSE Str(m[1].value)
    IN  value(SelectSeq(e.attributes, LAMBDA a : a.key = key))

\* Element.__getattr__(key): the child named key, the list of them when there
\* are several, AttributeError when there is none
getattr(e, key) ==
    LET found(m) ==
            IF Len(m) = 0
            THEN [raised |-> "AttributeError", isList |-> FALSE, items |-> <<>>]
            ELSE [raised |-> "none", isList |-> Len(m) > 1, items |-> m]
    IN  found(SelectSeq(e.children, LAMBDA c : c.name = key))

\* <e>.<key>.cdata: a list has no cdata
child_cdata(e, key) ==
    LET cdataOf(c) ==
            IF c.raised # "none" \/ c.isList
            THEN [raised |-> "AttributeError", cdata |-> <<>>]
            ELSE [raised |-> "none", cdata |-> c.items[1].cdata]
    IN  cdataOf(getattr(e, key))

\* iteration over what __getattr__ returned: Element.__iter__ yields the
\* element itself, a list yields its elements
iterate(found) == found.items

\* untangle.parse(text)
untangle_parse(text) ==
    CASE text.kind = "document" -> [raised |-> "none", root |-> text.root]
      [] text.kind = "malformed" -> [raised |-> "SAXParseException"]
      [] OTHER -> [raised |-> "ValueError"]

RECURSIVE decimal(_)
decimal(s) == IF s = <<>> THEN 0 ELSE 10 * decimal(SubSeq(s, 1, Len(s) - 1)) + digitValue(s[Len(s)])

\* int(text) of an element's text
int(s) ==
    IF s # <<>> /\ \A i \in DOMAIN s : isdigit(s[i])
    THEN [raised |-> "none", value |-> decimal(s)]
    ELSE [raised |-> "ValueError", value |-> 0]

---------------------------------------------------------------------------
(* ClientConfig.parse_config                                               *)

\* body of the inner loop: one server element to one ServerConfig
parse_server(attr) ==
    LET build(protocol, hostname, portText, port, socket_type, authentication,
              username) ==
            IF hostname.raised # "none" THEN [raised |-> hostname.raised]
            ELSE IF portText.raised # "none" THEN [raised |-> portText.raised]
            ELSE IF port.raised # "none" THEN [raised |-> port.raised]
            ELSE IF socket_type.raised # "none" THEN [raised |-> socket_type.raised]
            ELSE IF authentication.raised # "none"
                 THEN [raised |-> authentication.raised]
            ELSE IF username.raised # "none" THEN [raised |-> username.raised]
            ELSE [raised |-> "none",
                  server |-> ServerConfig(protocol, hostname.cdata, port.value,
                                          socket_type.cdata, authentication.cdata,
                                          username.cdata)]
        read(protocol, hostname, portText, socket_type, authentication, username) ==
            build(protocol, hostname, portText, int(portText.cdata), socket_type,
                  authentication, username)
    IN  read(get_attribute(attr, "type"), child_cdata(attr, "hostname"),
             child_cdata(attr, "port"), child_cdata(attr, "socketType"),
             child_cdata(attr, "authentication"), child_cdata(attr, "username"))

\* fault: a server element that cannot be read is skipped
RECURSIVE parse_servers_skipping(_)
parse_servers_skipping(elems) ==
    LET append(first, rest) ==
            IF first.raised # "none" THEN rest
            ELSE [raised |-> "none", servers |-> <<first.server>> \o rest.servers]
    IN  IF elems = <<>> THEN [raised |-> "none", servers |-> <<>>]
        ELSE append(parse_server(Head(elems)), parse_servers_skipping(Tail(elems)))

\* the loops of parse_config over the server elements, in iteration order
RECURSIVE parse_servers(_)
parse_servers(elems) ==
    LET append(first, rest) ==
            IF first.raised # "none" THEN [raised |-> first.raised]
            ELSE IF rest.raised # "none" THEN [raised |-> rest.raised]
            ELSE [raised |-> "none", servers |-> <<first.server>> \o rest.servers]
    IN  IF elems = <<>> THEN [raised |-> "none", servers |-> <<>>]
        ELSE append(parse_server(Head(elems)), parse_servers(Tail(elems)))

\* fault: the outgoing servers are visited first
server_elements_outgoing_first(incoming, outgoing) ==
    iterate(outgoing) \o iterate(incoming)

\* the order in which parse_config visits the server elements of root
server_elements(incoming, outgoing) == iterate(incoming) \o iterate(outgoing)

\* parse_config(self): [raised, emailProvider, servers]
parse_config(text) ==
    LET \* the loops, then `return servers`
        collect(emailProvider, servers) ==
            IF servers.raised # "none" THEN [raised |-> servers.raised]
            ELSE [raised |-> "none", emailProvider |-> emailProvider,
                  servers |-> servers.servers]
        \* for _config in root.incomingServer, root.outgoingServer
        loops(emailProvider, incoming, outgoing) ==
            IF incoming.raised # "none" THEN [raised |-> incoming.raised]
            ELSE IF outgoing.raised # "none" THEN [raised |-> outgoing.raised]
            ELSE collect(emailProvider,
                         parse_servers(server_elements(incoming, outgoing)))
        \* self.emailProvider = xml.clientConfig.emailProvider["id"]
        fromRoot(root) ==
            loops(get_attribute(root, "id"), getattr(root, "incomingServer"),
                  getattr(root, "outgoingServer"))
        \* root = xml.clientConfig.emailProvider
        fromProvider(found) ==
            IF found.raised # "none" THEN [raised |-> "AttributeError"]
            ELSE IF found.isList THEN [raised |-> "TypeError"]
            ELSE fromRoot(found.items[1])
        fromClientConfig(clientConfig) ==
            IF clientConfig.raised # "none" \/ clientConfig.isList
            THEN [raised |-> "AttributeError"]
            ELSE fromProvider(getattr(clientConfig.items[1], "emailProvider"))
        \* xml = untangle.parse(self.xml)
        fromXml(xml) ==
            IF xml.raised # "none" THEN [raised |-> xml.raised]
            ELSE fromClientConfig(getattr(xml.root, "clientConfig"))
    IN  fromXml(untangle_parse(text))

---------------------------------------------------------------------------
(* ClientConfig                                                            *)

\* f"https://autoconfig.thunderbird.net/v{VERSION}", a str the code only copies
DATABASE_URL == <<"https://autoconfig.thunderbird.net/v1.1">>

\* "/".join((a, b))
join(a, b) == a \o <<"/">> \o b

\* fault: only None is tested (`self.xml is None`)
falsy_none_only(text) == text.isNone

\* `not self.xml`: None and the empty str are falsy
falsy(text) == text.isNone \/ text.kind = "empty"

\* fault: the body is returned whatever the status
request_config_any_status(domain, resp) ==
    [sent |-> <<join(DATABASE_URL, domain)>>, text |-> resp.text]

\* request_config(self) with the endpoint answering resp: [sent, text]
request_config(domain, resp) ==
    LET config_url == join(DATABASE_URL, domain)
    IN  [sent |-> <<config_url>>,
         text |-> IF resp.ok THEN resp.text ELSE None]

\* an operation left by an exception: nothing is returned, no object exists
Failed(exception, urls, enteredParse) ==
    [raised |-> exception, obj |-> NoObject, sent |-> urls,
     parsed |-> enteredParse, result |-> Nothing]

\* ClientConfig.__init__(self, domain) with the endpoint answering resp:
\* [raised, obj, sent, parsed, result]
init(domain, resp) ==
    LET \* self.configs = self.parse_config()
        parsedInto(netloc, fetched, config) ==
            IF config.raised # "none" THEN Failed(config.raised, fetched.sent, TRUE)
            ELSE [raised |-> "none",
                  obj |-> [constructed |-> TRUE,
                           domain |-> netloc,
                           xml |-> fetched.text,
                           emailProvider |-> config.emailProvider,
                           configs |-> config.servers],
                  sent |-> fetched.sent,
                  parsed |-> TRUE,
                  result |-> ReturnObject]
        \* self.xml = self.request_config(); if not self.xml: raise
        fetchedFor(netloc, fetched) ==
            IF falsy(fetched.text) THEN Failed("Exception", fetched.sent, FALSE)
            ELSE parsedInto(netloc, fetched, parse_config(fetched.text))
        \* self.domain = self.fix_url(domain)
        fixedTo(fixed) ==
            IF fixed.raised # "none" THEN Failed(fixed.raised, <<>>, FALSE)
            ELSE fetchedFor(fixed.value, request_config(fixed.value, resp))
    IN  fixedTo(fix_url(domain))

\* _get_config(self, protocol): the first config whose protocol equals
\* protocol.lower(); falling off the loop returns None
_get_config(self, protocol) ==
    LET first(hits) ==
            IF hits = {} THEN ReturnNone
            ELSE ReturnConfig(self.configs[CHOOSE i \in hits : \A j \in hits : i <= j])
        scan(wanted) ==
            first({i \in DOMAIN self.configs : self.configs[i].protocol = wanted})
    IN  scan(Str(lower(protocol)))

\* _get_configs(self)
_get_configs(self) == ReturnList(self.configs)

\* a method of a constructed object that returns value and assigns nothing
Returned(self, value) ==
    [raised |-> "none", obj |-> self, sent |-> <<>>, parsed |-> FALSE,
     result |-> value]

\* fault: the configs searched are consumed (configs.pop(0))
get_protocol_popping(self, protocol) ==
    [raised |-> "none",
     obj |-> [self EXCEPT !.configs = IF @ = <<>> THEN @ ELSE Tail(@)],
     sent |-> <<>>, parsed |-> FALSE,
     result |-> _get_config(self, protocol)]

\* get_protocol(self, protocol)
get_protocol(self, protocol) == Returned(self, _get_config(self, protocol))

\* the instance calls self._get_config(protocol), self._get_configs()
call_get_config(self, protocol) == Returned(self, _get_config(self, protocol))
call_get_configs(self) == Returned(self, _get_configs(self))

\* classmethod get_config(cls, domain, protocol): cls(domain)._get_config(protocol)
get_config(domain, protocol, resp) ==
    LET query(made) ==
            IF made.raised # "none" THEN made
            ELSE [made EXCEPT !.result = _get_config(made.obj, protocol)]
    IN  query(init(domain, resp))

\* classmethod get_configs(cls, domain): cls(domain)._get_configs()
get_configs(domain, resp) ==
    LET query(made) ==
            IF made.raised # "none" THEN made
            ELSE [made EXCEPT !.result = _get_configs(made.obj)]
    IN  query(init(domain, resp))

---------------------------------------------------------------------------
(* Inputs: documents the endpoint may serve                                *)

Leaf(name, cdata) == Element(name, <<>>, <<>>, cdata)

\* the children of a server element
Fields(hostname, port, socketType, authentication, username) ==
    <<Leaf("hostname", hostname), Leaf("port", port),
      Leaf("socketType", socketType), Leaf("authentication", authentication),
      Leaf("username", username)>>

ChildNames == {"hostname", "port", "socketType", "authentication", "username"}

Without(children, name) == SelectSeq(children, LAMBDA c : c.name # name)

TypeAttr(t) == <<Attr("type", t)>>

ImapA ==
    [attributes |-> TypeAttr(<<"i", "m", "a", "p">>),
     children |-> Fields(<<"imap.example.com">>, <<"9", "9", "3">>, <<"ssl">>,
                         <<"password-cleartext">>, <<"%EMAILADDRESS%">>)]
ImapB ==
    [attributes |-> TypeAttr(<<"i", "m", "a", "p">>),
     children |-> Fields(<<"imap2.example.com">>, <<"1", "4", "3">>, <<"starttls">>,
                         <<"password-encrypted">>, <<"%EMAILLOCALPART%">>)]
UpperSmtp ==
    [attributes |-> TypeAttr(<<"S", "M", "T", "P">>),
     children |-> Fields(<<"smtp.example.com">>, <<"5", "8", "7">>, <<"starttls">>,
                         <<"password-cleartext">>, <<"%EMAILADDRESS%">>)]

\* server elements that have the type attribute and all five children
CompleteServers == {ImapA, ImapB, UpperSmtp}

\* a server element without one child, without its type attribute
WithoutChild(t, n) == [t EXCEPT !.children = Without(@, n)]
WithoutType(t) == [t EXCEPT !.attributes = <<>>]

ServerElement(name, t) == Element(name, t.attributes, t.children, <<>>)

\* the tree of <clientConfig><emailProvider id=..>servers</emailProvider></clientConfig>
Document(idAttrs, incoming, outgoing) ==
    LET servers == [i \in DOMAIN incoming |-> ServerElement("incomingServer", incoming[i])]
                   \o [i \in DOMAIN outgoing |-> ServerElement("outgoingServer", outgoing[i])]
        emailProvider == Element("emailProvider", idAttrs,
                                 <<Leaf("domain", <<"example.com">>)>> \o servers, <<>>)
        clientConfig == Element("clientConfig", <<Attr("version", <<"1.1">>)>>,
                                <<emailProvider>>, <<>>)
    IN  Element("", <<>>, <<clientConfig>>, <<>>)

ServerLists(pool) == UNION {[1 .. k -> pool] : k \in 0 .. MaxServers}

IdAttr == <<Attr("id", <<"example.com">>)>>

\* a list of server elements, the first k of them incoming, the others outgoing
Split(id, l, k) == Document(id, SubSeq(l, 1, k), SubSeq(l, k + 1, Len(l)))

\* every document of at most MaxServers complete server elements
CompleteDocuments ==
    UNION {{Split(IdAttr, l, k) : k \in 0 .. Len(l)} :
               l \in ServerLists(CompleteServers)}

\* documents in which the emailProvider element has no id attribute, or one
\* server element lacks one child or its type attribute
DefectiveDocuments ==
    UNION {{Split(<<>>, l, k) : k \in 0 .. Len(l)}
           \cup {Split(IdAttr, [l EXCEPT ![i] = WithoutChild(@, n)], k) :
                     k \in 0 .. Len(l), i \in DOMAIN l, n \in ChildNames}
           \cup {Split(IdAttr, [l EXCEPT ![i] = WithoutType(@)], k) :
                     k \in 0 .. Len(l), i \in DOMAIN l} :
               l \in ServerLists({ImapA})}

Documents == CompleteDocuments \cup DefectiveDocuments

\* response.text
EmptyText == [isNone |-> FALSE, kind |-> "empty"]
BlankText == [isNone |-> FALSE, kind |-> "blank"]
MalformedText == [isNone |-> FALSE, kind |-> "malformed"]
DocumentText(root) == [isNone |-> FALSE, kind |-> "document", root |-> root]

Texts == {EmptyText, BlankText, MalformedText} \cup {DocumentText(d) : d \in Documents}

\* bodies sent along with a non-success status
ErrorTexts ==
    {EmptyText, MalformedText,
     DocumentText(Document(IdAttr, <<ImapA>>, <<UpperSmtp>>))}

\* requests.Response: ok (status below 400) and text
Responses ==
    {[ok |-> TRUE, text |-> t] : t \in Texts}
        \cup {[ok |-> FALSE, text |-> t] : t \in ErrorTexts}

\* the domain argument
Domains ==
    {<<"a", ".", "c", "o", "m">>,
     HTTP \o <<"a", ".", "c", "o", "m", "/", "x">>}

\* the protocol argument
Protocols ==
    {<<"i", "m", "a", "p">>, <<"I", "M", "A", "P">>, <<"s", "m", "t", "p">>}

---------------------------------------------------------------------------
(* The resolver: one endpoint, any sequence of calls                       *)

NoArg == <<>>
NormIdle == [stage |-> "idle"]

Init ==
    /\ obj = NoObject
    /\ op = "start"
    /\ arg = [domain |-> NoArg, protocol |-> NoArg]
    /\ response \in Responses
    /\ sent = <<>>
    /\ parsed = FALSE
    /\ raised = "none"
    /\ result = Nothing
    /\ norm = NormIdle

\* the effect of a call on the state
Call(name, domain, protocol, outcome) ==
    /\ op' = name
    /\ arg' = [domain |-> domain, protocol |-> protocol]
    /\ obj' = outcome.obj
    /\ sent' = outcome.sent
    /\ parsed' = outcome.parsed
    /\ raised' = outcome.raised
    /\ result' = outcome.result
    /\ UNCHANGED <<response, norm>>

\* ClientConfig(domain)
New ==
    \E d \in Domains : Call("ClientConfig", d, NoArg, init(d, response))

\* ClientConfig.get_config(domain, protocol)
GetConfig ==
    \E d \in Domains, p \in Protocols :
        Call("get_config", d, p, get_config(d, p, response))

\* ClientConfig.get_configs(domain)
GetConfigs ==
    \E d \in Domains : Call("get_configs", d, NoArg, get_configs(d, response))

\* obj.get_protocol(protocol)
GetProtocol ==
    /\ obj.constructed
    /\ \E p \in Protocols : Call("get_protocol", NoArg, p, get_protocol(obj, p))

\* obj._get_config(protocol)
PrivateGetConfig ==
    /\ obj.constructed
    /\ \E p \in Protocols : Call("_get_config", NoArg, p, call_get_config(obj, p))

\* obj._get_configs()
PrivateGetConfigs ==
    /\ obj.constructed
    /\ Call("_get_configs", NoArg, NoArg, call_get_configs(obj))

Next ==
    \/ New
    \/ GetConfig
    \/ GetConfigs
    \/ GetProtocol
    \/ PrivateGetConfig
    \/ PrivateGetConfigs

Spec == Init /\ [][Next]_vars

---------------------------------------------------------------------------
(* fix_url on its own: applied to an input, then to its own result         *)

Alphabet == {"a", ".", ":", "8", "/", "?", "#", "[", "\t"}

\* what an input starts with: nothing, the two schemes fix_url knows, the
\* same scheme in capitals, another scheme
Prefixes ==
    {<<>>, HTTP, HTTPS,
     <<"H", "T", "T", "P", ":", "/", "/">>,
     <<"f", "t", "p", ":", "/", "/">>}

Rests == UNION {[1 .. k -> Alphabet] : k \in 0 .. MaxLen}

Unset == [raised |-> "unset", value |-> <<>>]

NormInit ==
    /\ obj = NoObject
    /\ op = "start"
    /\ arg = [domain |-> NoArg, protocol |-> NoArg]
    /\ response = [ok |-> FALSE, text |-> EmptyText]
    /\ sent = <<>>
    /\ parsed = FALSE
    /\ raised = "none"
    /\ result = Nothing
    /\ \E p \in Prefixes, r \in Rests :
           norm = [stage |-> "input", prefix |-> p, rest |-> r, x |-> p \o r,
                   once |-> Unset, twice |-> Unset]

\* fix_url(x)
FixUrl ==
    /\ norm.stage = "input"
    /\ norm' = [norm EXCEPT !.stage = "once", !.once = fix_url(norm.x)]
    /\ UNCHANGED <<obj, op, arg, response, sent, parsed, raised, result>>

\* fix_url(fix_url(x))
FixUrlAgain ==
    /\ norm.stage = "once"
    /\ norm.once.raised = "none"
    /\ norm' = [norm EXCEPT !.stage = "twice", !.twice = fix_url(norm.once.value)]
    /\ UNCHANGED <<obj, op, arg, response, sent, parsed, raised, result>>

NormNext ==
    \/ FixUrl
    \/ FixUrlAgain

SpecNorm == NormInit /\ [][NormNext]_vars

---------------------------------------------------------------------------
(* Reading the served document, for the properties below                   *)

ConstructorOps == {"ClientConfig", "get_config", "get_configs"}
QueryOps == {"get_protocol", "_get_config", "_get_configs"}
LookupOps == {"get_config", "get_protocol", "_get_config"}

IsDocument(text) == ~text.isNone /\ text.kind = "document"

\* the emailProvider element of a served document and its server elements
ProviderOf(text) == text.root.children[1].children[1]
IncomingOf(text) ==
    SelectSeq(ProviderOf(text).children, LAMBDA e : e.name = "incomingServer")
OutgoingOf(text) ==
    SelectSeq(ProviderOf(text).children, LAMBDA e : e.name = "outgoingServer")
ServersOf(text) == IncomingOf(text) \o OutgoingOf(text)

HasAttr(e, key) == \E i \in DOMAIN e.attributes : e.attributes[i].key = key
HasChild(e, name) == \E i \in DOMAIN e.children : e.children[i].name = name
LacksChild(e) == \E n \in ChildNames : ~HasChild(e, n)

\* a document whose emailProvider has its id and whose server elements all
\* have their type attribute and their five children
IsWellFormed(text) ==
    /\ IsDocument(text)
    /\ HasAttr(ProviderOf(text), "id")
    /\ \A i \in DOMAIN ServersOf(text) :
           HasAttr(ServersOf(text)[i], "type") /\ ~LacksChild(ServersOf(text)[i])

\* the ServerConfig each complete server element stands for, written out
ExpectedImapA ==
    ServerConfig(Str(<<"i", "m", "a", "p">>), <<"imap.example.com">>, 993,
                 <<"ssl">>, <<"password-cleartext">>, <<"%EMAILADDRESS%">>)
ExpectedImapB ==
    ServerConfig(Str(<<"i", "m", "a", "p">>), <<"imap2.example.com">>, 143,
                 <<"starttls">>, <<"password-encrypted">>, <<"%EMAILLOCALPART%">>)
ExpectedUpperSmtp ==
    ServerConfig(Str(<<"S", "M", "T", "P">>), <<"smtp.example.com">>, 587,
                 <<"starttls">>, <<"password-cleartext">>, <<"%EMAILADDRESS%">>)

Expected(e) ==
    CASE e.children = ImapA.children -> ExpectedImapA
      [] e.children = ImapB.children -> ExpectedImapB
      [] e.children = UpperSmtp.children -> ExpectedUpperSmtp

ExpectedConfigs(text) == [i \in DOMAIN ServersOf(text) |-> Expected(ServersOf(text)[i])]

\* the URL of the GET for the domain argument
ExpectedUrl == join(DATABASE_URL, <<"a", ".", "c", "o", "m">>)

\* config c matches protocol p when both are compared case-insensitively
Matches(c, p) == ~c.protocol.isNone /\ lower(c.protocol.s) = lower(p)

FirstMatch(configs, p) ==
    LET hits == {i \in DOMAIN configs : Matches(configs[i], p)}
    IN  IF hits = {} THEN ReturnNone
        ELSE ReturnConfig(configs[CHOOSE i \in hits : \A j \in hits : i <= j])

---------------------------------------------------------------------------
(* Properties                                                              *)

\* C1: a lookup that does not raise returns the first config, in document
\* order, whose protocol equals the asked protocol when both are compared
\* without regard to case, and None exactly when there is no such config.
C1_CaseInsensitiveFirstMatch ==
    (op \in LookupOps /\ raised = "none") =>
        result = FirstMatch(obj.configs, arg.protocol)

\* C2: a well-formed document with N >= 1 incoming and M >= 1 outgoing server
\* elements resolves to exactly N+M configs, the incoming ones in document
\* order and then the outgoing ones, each carrying its element's type,
\* hostname, port as an integer, socketType, authentication and username.
C2_ConfigsInDocumentOrder ==
    (/\ op \in ConstructorOps
     /\ response.ok
     /\ IsWellFormed(response.text)
     /\ Len(IncomingOf(response.text)) >= 1
     /\ Len(OutgoingOf(response.text)) >= 1) =>
        /\ raised = "none"
        /\ obj.constructed
        /\ Len(obj.configs)
               = Len(IncomingOf(response.text)) + Len(OutgoingOf(response.text))
        /\ obj.configs = ExpectedConfigs(response.text)
        /\ op = "get_configs" => result = ReturnList(ExpectedConfigs(response.text))

C2_Witness ==
    /\ op = "ClientConfig"
    /\ response.ok
    /\ IsWellFormed(response.text)
    /\ Len(IncomingOf(response.text)) = 2
    /\ Len(OutgoingOf(response.text)) = 1
    /\ IncomingOf(response.text)[1] # IncomingOf(response.text)[2]
    /\ obj.constructed
    /\ Len(obj.configs) = 3

\* C3: when the endpoint answers with a non-success status, the GET for the
\* normalized domain was the only request, the construction fails with the
\* not-found Exception, parse_config is not entered and no ClientConfig
\* exists; get_config and get_configs fail the same way and return nothing.
C3_NotFoundOnErrorStatus ==
    (op \in ConstructorOps /\ ~response.ok) =>
        /\ sent = <<ExpectedUrl>>
        /\ raised = "Exception"
        /\ ~parsed
        /\ ~obj.constructed
        /\ result = Nothing

C3_Witness ==
    /\ op = "get_configs"
    /\ ~response.ok
    /\ response.text.kind = "document"
    /\ raised = "Exception"
    /\ ~obj.constructed

\* C4: when a server element of the fetched document lacks one of hostname,
\* port, socketType, authentication, username, the construction fails with
\* the AttributeError of the missing element: no ClientConfig exists and
\* nothing is returned, not even the servers that precede the defective one.
C4_MissingChildFails ==
    (/\ op \in ConstructorOps
     /\ response.ok
     /\ IsDocument(response.text)
     /\ \E i \in DOMAIN ServersOf(response.text) :
            LacksChild(ServersOf(response.text)[i])) =>
        /\ parsed
        /\ raised = "AttributeError"
        /\ ~obj.constructed
        /\ result = Nothing

C4_Witness ==
    /\ op = "ClientConfig"
    /\ response.ok
    /\ IsDocument(response.text)
    /\ Len(IncomingOf(response.text)) = 2
    /\ Len(OutgoingOf(response.text)) = 1
    /\ ~LacksChild(IncomingOf(response.text)[1])
    /\ ~HasChild(IncomingOf(response.text)[2], "port")
    /\ raised = "AttributeError"
    /\ ~obj.constructed

\* C5: when the id attribute of the emailProvider element or the type
\* attribute of a server element is absent, the construction fails; no
\* constructed ClientConfig holds a None emailProvider or a None protocol.
C5_MissingAttributeFails ==
    /\ (/\ op \in ConstructorOps
        /\ response.ok
        /\ IsDocument(response.text)
        /\ \/ ~HasAttr(ProviderOf(response.text), "id")
           \/ \E i \in DOMAIN ServersOf(response.text) :
                  ~HasAttr(ServersOf(response.text)[i], "type")) =>
           (raised # "none" /\ ~obj.constructed)
    /\ obj.constructed =>
           /\ ~obj.emailProvider.isNone
           /\ \A i \in DOMAIN obj.configs : ~obj.configs[i].protocol.isNone

\* C6: a well-formed document with no incoming or no outgoing server element
\* resolves, configs holding exactly the server elements present; configs is
\* empty only for a document without server elements; an absent document is
\* a failed construction.
C6_ZeroServersResolve ==
    /\ (op \in ConstructorOps /\ response.ok /\ IsWellFormed(response.text)) =>
           /\ raised = "none"
           /\ obj.constructed
           /\ obj.configs = ExpectedConfigs(response.text)
    /\ (obj.constructed /\ obj.configs = <<>>) =>
           (IsDocument(obj.xml) /\ ServersOf(obj.xml) = <<>>)
    /\ (op \in ConstructorOps /\ (~response.ok \/ response.text.kind = "empty")) =>
           (raised = "Exception" /\ ~obj.constructed)

\* C7: fix_url is idempotent: whenever fix_url(x) returns n, fix_url(n)
\* returns n.
C7_FixUrlIdempotent ==
    /\ (norm.stage = "once" /\ norm.once.raised = "none") =>
           fix_url(norm.once.value) = norm.once
    /\ norm.stage = "twice" => norm.twice = norm.once

C7_Witness ==
    /\ norm.stage = "twice"
    /\ norm.prefix = <<"H", "T", "T", "P", ":", "/", "/">>
    /\ norm.once.value # <<>>
    /\ norm.once.value # norm.x
    /\ norm.twice.raised = "none"

HostChars == {"a", ".", "8"}

\* a host, optionally followed by a colon and a port
IsHost(h) ==
    /\ h # <<>>
    /\ h[1] \in HostChars
    /\ \E k \in 1 .. Len(h) :
           /\ \A i \in 1 .. k : h[i] \in HostChars
           /\ k < Len(h) =>
                  /\ h[k + 1] = ":"
                  /\ k + 1 < Len(h)
                  /\ \A i \in (k + 2) .. Len(h) : isdigit(h[i])

\* nothing, or a path, a query or a fragment
IsSuffix(s) == s = <<>> \/ s[1] \in {"/", "?", "#"}

\* C8: for a host h (optionally with a port) and a path, query or fragment s,
\* fix_url of h, of h s, of http://h s and of https://h s is exactly h.
C8_FixUrlReturnsNetloc ==
    (norm.stage \in {"once", "twice"} /\ norm.prefix \in {<<>>, HTTP, HTTPS}) =>
        \A k \in 1 .. Len(norm.rest) :
            (/\ IsHost(SubSeq(norm.rest, 1, k))
             /\ IsSuffix(SubSeq(norm.rest, k + 1, Len(norm.rest)))) =>
                norm.once = [raised |-> "none", value |-> SubSeq(norm.rest, 1, k)]

C8_Witness ==
    /\ norm.stage = "once"
    /\ norm.prefix = HTTPS
    /\ norm.rest = <<"a", "/", "a">>
    /\ norm.once.value = <<"a">>

\* C9: a call of get_protocol, _get_config or _get_configs on a constructed
\* ClientConfig leaves domain, xml, emailProvider and configs as they were,
\* requests nothing and does not raise; asking the same again returns the same.
C9_QueriesChangeNothing ==
    [][/\ op' \in QueryOps =>
              /\ obj' = obj
              /\ sent' = <<>>
              /\ raised' = "none"
       /\ (op \in QueryOps /\ op' = op /\ arg' = arg) => result' = result]_vars

C9_Witness ==
    /\ op = "get_protocol"
    /\ obj.constructed
    /\ Len(obj.configs) = 3
    /\ result.kind = "ServerConfig"
    /\ result.config = obj.configs[2]

\* C10: a success response with an empty body fails like a non-success
\* status: the not-found Exception, parse_config not entered, no ClientConfig;
\* parse_config is entered only after a success response with a non-empty body.
C10_EmptyBodyIsNotFound ==
    /\ (op \in ConstructorOps /\ response.ok /\ response.text.kind = "empty") =>
           /\ raised = "Exception"
           /\ ~parsed
           /\ ~obj.constructed
           /\ result = Nothing
    /\ parsed => (response.ok /\ response.text.kind # "empty")

C10_Witness ==
    /\ op = "ClientConfig"
    /\ response.ok
    /\ response.text.kind = "empty"
    /\ raised = "Exception"
    /\ ~parsed

====
